---- MODULE Spec2Model ----
(***************************************************************************)
(* Lost in Laminate zhCN userscript: dictionary loader, node translator,   *)
(* DOM scanner / watcher, bounded poller and remote sync, in the five      *)
(* script variants of the repository:                                      *)
(*   v100  src/unnamed/part_000           (1.0.0, hash sync)               *)
(*   v101  src/Lost_in_Laminate_CN.user.js (1.0.1, hash sync)              *)
(*   v111  src/unnamed/part_001:125-273   (1.1.1, ETag sync)               *)
(*   v112  src/unnamed/part_001:1-124     (1.1.2, ETag sync)               *)
(*   v20   src/unnamed/part_002           (2.0,   hash sync)               *)
(* Strings are sequences of UTF-16 code units, as JavaScript sees them.    *)
(***************************************************************************)
EXTENDS Integers, Sequences, FiniteSets, TLC

(***************************************************************************)
(* Text literals                                                           *)
(***************************************************************************)
\* "p", "q": passage names
NameP == <<112>>
NameQ == <<113>>
\* "": an empty name attribute
NameEmpty == <<>>
\* "constructor": a passage name that is also a property of Object.prototype
NameCtor == <<99,111,110,115,116,114,117,99,116,111,114>>

\* {"p":"Aa"}
TxtA == <<123,34,112,34,58,34,65,97,34,125>>
\* {"p":"BB"}
TxtB == <<123,34,112,34,58,34,66,66,34,125>>
\* {"p":"a\r\nb"}   (backslash escapes, as JSON text)
TxtCR == <<123,34,112,34,58,34,97,92,114,92,110,98,34,125>>
\* null
TxtNull == <<110,117,108,108>>
\* {"p":     (truncated, does not parse)
TxtBad == <<123,34,112,34,58>>
\* the empty string
TxtEmpty == <<>>
\* Hi       (the host's original passage text)
TxtHi == <<72,105>>
\* a<LF>b   (the host's text with a line feed)
TxtLF == <<97,10,98>>

(***************************************************************************)
(* normalize: String(s).replace(/\r\n?/g, '\n')                            *)
(***************************************************************************)
RECURSIVE normalizeFrom(_, _)
normalizeFrom(s, i) ==
  IF i > Len(s) THEN <<>>
  ELSE IF s[i] = 13
       THEN IF i + 1 <= Len(s) /\ s[i + 1] = 10
            THEN <<10>> \o normalizeFrom(s, i + 2)
            ELSE <<10>> \o normalizeFrom(s, i + 1)
       ELSE <<s[i]>> \o normalizeFrom(s, i + 1)

normalize(s) == normalizeFrom(s, 1)

(***************************************************************************)
(* simpleHash: h = (h * 31 + charCode) | 0 over the string, then           *)
(* (h >>> 0).toString(16).  The 32-bit value is kept as two 16-bit halves  *)
(* so that no intermediate product leaves the 32-bit range.                *)
(***************************************************************************)
Half == 65536

\* the hash step with 32 in place of 31: h = (h * 32 + charCode) | 0
HashStepTimes32(h, c) ==
  LET lo == h.lo * 32 + c
      hi == h.hi * 32 + (lo \div Half)
  IN  [hi |-> hi % Half, lo |-> lo % Half]

HashStep(h, c) ==
  LET lo == h.lo * 31 + c
      hi == h.hi * 31 + (lo \div Half)
  IN  [hi |-> hi % Half, lo |-> lo % Half]

RECURSIVE HashFrom(_, _, _)
HashFrom(s, i, h) ==
  IF i > Len(s) THEN h ELSE HashFrom(s, i + 1, HashStep(h, s[i]))

HexDigit(d) == IF d < 10 THEN 48 + d ELSE 87 + d

RECURSIVE HexOf(_)
HexOf(n) == IF n < 16 THEN <<HexDigit(n)>> ELSE HexOf(n \div 16) \o <<HexDigit(n % 16)>>

RECURSIVE HexPad4(_, _)
HexPad4(n, k) == IF k = 0 THEN <<>> ELSE HexPad4(n \div 16, k - 1) \o <<HexDigit(n % 16)>>

ToString16(h) == IF h.hi = 0 THEN HexOf(h.lo) ELSE HexOf(h.hi) \o HexPad4(h.lo, 4)

simpleHash(str) == ToString16(HashFrom(str, 1, [hi |-> 0, lo |-> 0]))

(***************************************************************************)
(* JSON.parse, exact on texts without insignificant whitespace whose       *)
(* object members and array items are strings; every other text of the     *)
(* model is malformed and throws.                                          *)
(***************************************************************************)
EmptyMap == [k \in {} |-> <<>>]

JValue(kind, map, str) == [kind |-> kind, map |-> map, str |-> str]
JThrow == JValue("throw", EmptyMap, <<>>)
JObject(m) == JValue("object", m, <<>>)
JEmptyObject == JObject(EmptyMap)

PFail == [ok |-> FALSE, val |-> <<>>, next |-> 0]

RECURSIVE ParseChars(_, _, _)
ParseChars(t, i, acc) ==
  IF i > Len(t) THEN PFail
  ELSE IF t[i] = 34 THEN [ok |-> TRUE, val |-> acc, next |-> i + 1]
  ELSE IF t[i] = 92
       THEN IF i + 1 > Len(t) THEN PFail
            ELSE IF t[i + 1] = 114 THEN ParseChars(t, i + 2, Append(acc, 13))
            ELSE IF t[i + 1] = 110 THEN ParseChars(t, i + 2, Append(acc, 10))
            ELSE IF t[i + 1] = 116 THEN ParseChars(t, i + 2, Append(acc, 9))
            ELSE IF t[i + 1] \in {34, 47, 92} THEN ParseChars(t, i + 2, Append(acc, t[i + 1]))
            ELSE PFail
  ELSE IF t[i] < 32 THEN PFail
  ELSE ParseChars(t, i + 1, Append(acc, t[i]))

ParseString(t, i) ==
  IF i <= Len(t) /\ t[i] = 34 THEN ParseChars(t, i + 1, <<>>) ELSE PFail

MapPut(m, k, v) == [x \in DOMAIN m \cup {k} |-> IF x = k THEN v ELSE m[x]]

\* members of an object from position i (just after "{" or ","): "k":"v" , ... }
RECURSIVE ParseMembers(_, _, _)
ParseMembers(t, i, m) ==
  LET k == ParseString(t, i) IN
  IF ~k.ok \/ k.next > Len(t) \/ t[k.next] # 58 THEN JThrow
  ELSE LET v == ParseString(t, k.next + 1) IN
       IF ~v.ok \/ v.next > Len(t) THEN JThrow
       ELSE IF t[v.next] = 44 THEN ParseMembers(t, v.next + 1, MapPut(m, k.val, v.val))
       ELSE IF t[v.next] = 125 /\ v.next = Len(t) THEN JObject(MapPut(m, k.val, v.val))
       ELSE JThrow

\* items of an array from position i: "s" , ... ]
RECURSIVE ParseItems(_, _)
ParseItems(t, i) ==
  LET v == ParseString(t, i) IN
  IF ~v.ok \/ v.next > Len(t) THEN JThrow
  ELSE IF t[v.next] = 44 THEN ParseItems(t, v.next + 1)
  ELSE IF t[v.next] = 93 /\ v.next = Len(t) THEN JValue("array", EmptyMap, <<>>)
  ELSE JThrow

IsDigits(t) == Len(t) > 0 /\ \A i \in 1..Len(t) : t[i] \in 48..57
                /\ (Len(t) = 1 \/ t[1] # 48)

JSONparse(t) ==
  IF Len(t) = 0 THEN JThrow
  ELSE IF t = TxtNull THEN JValue("null", EmptyMap, <<>>)
  ELSE IF IsDigits(t) THEN JValue("number", EmptyMap, t)
  ELSE IF t[1] = 34
       THEN LET s == ParseString(t, 1) IN
            IF s.ok /\ s.next = Len(t) + 1 THEN JValue("string", EmptyMap, s.val) ELSE JThrow
  ELSE IF t[1] = 123
       THEN IF Len(t) = 2 /\ t[2] = 125 THEN JEmptyObject ELSE ParseMembers(t, 2, EmptyMap)
  ELSE IF t[1] = 91
       THEN IF Len(t) = 2 /\ t[2] = 93 THEN JValue("array", EmptyMap, <<>>) ELSE ParseItems(t, 2)
  ELSE JThrow


(***************************************************************************)
(* Bounds of the model                                                     *)
(***************************************************************************)
\* page loads in one behaviour (the first load and the reloads after it)
MaxLoads == 2
\* child nodes the host leaves in one passage element
MaxKids == 2
\* DOM changes the host makes in one task, before the observer is notified
MaxBatch == 1
\* timer ticks followed when a throwing scan keeps the poller from counting
MaxTicks == 12

(***************************************************************************)
(* Program constants                                                       *)
(***************************************************************************)
ASK_BEFORE_RELOAD == TRUE
pollMax == 10

Variants == {"v100", "v101", "v111", "v112", "v20"}
HashVariants == {"v100", "v101", "v20"}
ETagVariants == {"v111", "v112"}

(***************************************************************************)
(* The document: one top-level passage E1, a container E2 and a passage E3 *)
(* inside the container.  A text node is the node 0.                       *)
(***************************************************************************)
E1 == 1
E2 == 2
E3 == 3
TextNode == 0
Nodes == {E1, E2, E3}
Passages == {E1, E3}
\* the roots the host inserts: E1 alone, or E2 with E3 inside it
Roots == {E1, E2}
Subtree(n) == IF n = E2 THEN {E2, E3} ELSE {n}
\* names the host gives the top-level passage
Names == {NameP, NameQ, NameEmpty, NameCtor}

\* a persistent or optional string value: GM_getValue(key, null), a header
Unset == [set |-> FALSE, val |-> <<>>]
Some(t) == [set |-> TRUE, val |-> t]
\* JavaScript truthiness of a string-or-null
Truthy(s) == s.set /\ s.val # <<>>

VARIABLES
  variant,     \* which script is installed
  gmThrows,    \* the script manager throws (instead of returning null) for a missing resource
  resInit,     \* the bundled snapshot: @resource translations_init / translations
  nameOf1,     \* the name attribute of E1
  hostRoots,   \* the subtrees the host document consists of
  remoteBody,  \* the payload the remote endpoint serves
  serverEtag,  \* the remote endpoint sends an ETag header
  cacheDict,   \* GM storage slot CACHE_KEY_DICT
  cacheHash,   \* GM storage slot CACHE_KEY_HASH / CACHE_ETAG_KEY
  loads,       \* page loads so far
  pc,          \* position of the startup script
  dict,        \* let dict
  loadErr,     \* the loader's catch block ran
  observing,   \* mo.observe(...) was called
  listeners,   \* once-listeners still registered
  timerOn,     \* the interval timer is installed and not cleared
  pollCount,   \* let pollCount / k / n
  ticks,       \* timer callbacks run on this page
  attached,    \* nodes in the document
  content,     \* child text nodes of each passage
  muts,        \* mutation records not yet delivered to the observer
  translated,  \* passages whose content was last touched by translateOne
  req,         \* the GM_xmlhttpRequest of this page
  sync,        \* what the response handler of this page did
  uncaught     \* an exception left the script or one of its callbacks

vars == <<variant, gmThrows, resInit, nameOf1, hostRoots, remoteBody, serverEtag, cacheDict,
          cacheHash, loads, pc, dict, loadErr, observing, listeners, timerOn,
          pollCount, ticks, attached, content, muts, translated, req, sync, uncaught>>

env == <<variant, gmThrows, resInit, nameOf1, hostRoots, remoteBody, serverEtag>>
store == <<cacheDict, cacheHash>>
dom == <<attached, content, muts, translated>>
poller == <<timerOn, pollCount, ticks>>

(***************************************************************************)
(* DOM primitives                                                          *)
(***************************************************************************)
\* n.nodeType === 1
IsElement(n) == n \in Nodes
\* n.matches('tw-passagedata[name]')
matches(n) == n \in Passages
\* el.getAttribute('name'): unset for the container
getAttribute(n) ==
  IF n = E1 THEN Some(nameOf1) ELSE IF n = E3 THEN Some(NameP) ELSE Unset
\* document.querySelectorAll('tw-passagedata[name]'), in document order
querySelectorAll(scope) ==
  LET has(n) == n \in scope /\ matches(n) IN
  (IF has(E1) THEN <<E1>> ELSE <<>>) \o (IF has(E3) THEN <<E3>> ELSE <<>>)

RECURSIVE textContent(_)
textContent(kids) == IF kids = <<>> THEN <<>> ELSE Head(kids) \o textContent(Tail(kids))

\* a childList mutation record: who made the change and the nodes it added
Rec(by, added) == [by |-> by, added |-> added]

(***************************************************************************)
(* dict[name] and String(v)                                                *)
(***************************************************************************)
\* function 
TxtFunction == <<102,117,110,99,116,105,111,110,32>>
\* () { [native code] }
TxtNative == <<40,41,32,123,32,91,110,97,116,105,118,101,32,99,111,100,101,93,32,125>>
\* Object, Number, String, Array
CtorName(kind) ==
  IF kind = "object" THEN <<79,98,106,101,99,116>>
  ELSE IF kind = "number" THEN <<78,117,109,98,101,114>>
  ELSE IF kind = "string" THEN <<83,116,114,105,110,103>>
  ELSE <<65,114,114,97,121>>

\* the value of d[name]: an own member, else what the prototype chain of d
\* holds under that name, else undefined; null[name] throws a TypeError
Lookup(d, name) ==
  IF d.kind = "null" THEN [kind |-> "throw", str |-> <<>>]
  ELSE IF d.kind = "object" /\ name \in DOMAIN d.map
       THEN [kind |-> "string", str |-> d.map[name]]
  ELSE IF name = NameCtor
       THEN [kind |-> "function", str |-> TxtFunction \o CtorName(d.kind) \o TxtNative]
  ELSE [kind |-> "undefined", str |-> <<>>]

(***************************************************************************)
(* translateOne                                                            *)
(***************************************************************************)
TResult(threw, kids, recs) == [threw |-> threw, kids |-> kids, recs |-> recs]
TNoop(kids) == TResult(FALSE, kids, <<>>)

\* the replacement without the removeChild loop: the new text node is appended
AppendOnly(kids, cn) ==
  TResult(FALSE, Append(kids, cn), <<Rec("script", <<TextNode>>)>>)

\* while (el.firstChild) el.removeChild(el.firstChild);
\* el.appendChild(document.createTextNode(cn));
ClearAndAppend(kids, cn) ==
  TResult(FALSE, <<cn>>,
          [i \in 1..Len(kids) |-> Rec("script", <<>>)] \o <<Rec("script", <<TextNode>>)>>)

\* if (normalize(el.textContent) !== normalize(cnEscaped)) el.textContent = cnEscaped;
AssignIfDiffers(kids, cn) ==
  IF normalize(textContent(kids)) # normalize(cn)
  THEN TResult(FALSE, IF cn = <<>> THEN <<>> ELSE <<cn>>,
               <<Rec("script", IF cn = <<>> THEN <<>> ELSE <<TextNode>>)>>)
  ELSE TNoop(kids)

\* versions 1.0.0, 1.0.1 and 2.0
translateOneByName(el, kids, d) ==
  IF ~IsElement(el) THEN TNoop(kids)
  ELSE LET name == getAttribute(el) IN
       IF ~Truthy(name) THEN TNoop(kids)
       ELSE LET v == Lookup(d, name.val) IN
            IF v.kind = "throw" THEN TResult(TRUE, kids, <<>>)
            ELSE IF v.kind = "undefined" THEN TNoop(kids)
            ELSE IF variant = "v20" THEN AssignIfDiffers(kids, v.str)
            ELSE ClearAndAppend(kids, normalize(v.str))

\* versions 1.1.1 and 1.1.2
translateOneByMatch(el, kids, d) ==
  IF ~(IsElement(el) /\ matches(el)) THEN TNoop(kids)
  ELSE LET v == Lookup(d, getAttribute(el).val) IN
       IF v.kind = "throw" THEN TResult(TRUE, kids, <<>>)
       ELSE IF v.kind = "undefined" THEN TNoop(kids)
       ELSE ClearAndAppend(kids, normalize(v.str))

translateOne(el, kids, d) ==
  IF variant \in ETagVariants THEN translateOneByMatch(el, kids, d)
  ELSE translateOneByName(el, kids, d)

\* the state a run of translateOne calls threads through
Pass(c, recs, threw, done) == [content |-> c, recs |-> recs, threw |-> threw, done |-> done]

KidsOf(c, el) == IF el \in Passages THEN c[el] ELSE <<>>

\* els.forEach(translateOne): stops at the first call that throws
RECURSIVE forEachTranslate(_, _)
forEachTranslate(els, st) ==
  IF els = <<>> \/ st.threw THEN st
  ELSE LET el == Head(els)
           r == translateOne(el, KidsOf(st.content, el), dict)
           c == IF el \in Passages THEN [st.content EXCEPT ![el] = r.kids] ELSE st.content
       IN forEachTranslate(Tail(els),
            Pass(c, st.recs \o r.recs, r.threw,
                 IF el \in Passages /\ ~r.threw THEN st.done \cup {el} ELSE st.done))

\* translateAllExisting / translateAll
translateAllExisting(c) ==
  forEachTranslate(querySelectorAll(attached), Pass(c, <<>>, FALSE, {}))


(***************************************************************************)
(* Dictionary Loader                                                       *)
(***************************************************************************)
\* {}
TxtBraces == <<123,125>>

\* GM_getResourceText(name) for a resource that holds res: a missing
\* resource is null under one script manager and an exception under another
GM_getResourceText(res) ==
  IF res.set THEN [threw |-> FALSE, val |-> res]
  ELSE [threw |-> gmThrows, val |-> Unset]

\* @resource translations_dev is not declared by any variant's header
ResDev == Unset

\* try { return GM_getResourceText(name); } catch (_) { return null; }
tryGetResource(res) ==
  LET r == GM_getResourceText(res) IN IF r.threw THEN Unset ELSE r.val

\* s || '{}'
OrBraces(s) == IF Truthy(s) THEN s.val ELSE TxtBraces

\* the value the try block assigns to dict, or a "throw" value
LoadTry ==
  IF variant = "v111" THEN JThrow              \* CACHE_DICT_KEY is not defined
  ELSE IF Truthy(cacheDict) THEN JSONparse(cacheDict.val)
  ELSE IF variant = "v100"
       THEN LET r == GM_getResourceText(resInit) IN
            IF r.threw THEN JThrow ELSE JSONparse(OrBraces(r.val))
  ELSE IF variant = "v20"
       THEN LET r == GM_getResourceText(resInit) IN
            IF r.threw THEN JThrow
            ELSE IF Truthy(r.val) THEN JSONparse(r.val.val) ELSE JEmptyObject
  ELSE LET dev == tryGetResource(ResDev) IN
       IF Truthy(dev) THEN JSONparse(dev.val)
       ELSE JSONparse(OrBraces(tryGetResource(resInit)))

\* let dict = {}; try { ... } catch (e) { console.error(...); dict = {}; }
LoadDict == IF LoadTry.kind = "throw" THEN JEmptyObject ELSE LoadTry

(***************************************************************************)
(* Remote endpoint                                                         *)
(***************************************************************************)
ServerTexts == {TxtA, TxtB, TxtCR, TxtNull, TxtBad}

\* the validator the endpoint sends with a payload: "1" .. "5", quoted
EtagOf(t) ==
  <<34, (IF t = TxtA THEN 49 ELSE IF t = TxtB THEN 50 ELSE IF t = TxtCR THEN 51
         ELSE IF t = TxtNull THEN 52 ELSE 53), 34>>

\* getHeader(resp, 'etag')
getHeader == IF serverEtag THEN Some(EtagOf(remoteBody)) ELSE Unset

\* the endpoint answers 304 exactly to a request that carries its validator
NotModified == serverEtag /\ req.inm.set /\ req.inm.val = EtagOf(remoteBody)

NoReq == [state |-> "none", inm |-> Unset, kind |-> "none", status |-> 0, hidden |-> FALSE,
          answer |-> FALSE]
NoSync == [wrote |-> FALSE, prompted |-> FALSE, reload |-> FALSE, logged |-> "none"]
Warned == [NoSync EXCEPT !.logged = "warn"]

\* the fingerprint a sync of this variant stores with a payload
Fingerprint(v, t) == IF v \in ETagVariants THEN EtagOf(t) ELSE simpleHash(t)

(***************************************************************************)
(* Initial states: a page load starts with the persistent storage as the   *)
(* previous loads left it and an empty per-page state.                     *)
(***************************************************************************)
StartContent == [e \in Passages |-> <<TxtHi>>]
\* the document when the script starts: still empty, or E1 already parsed
StartDoms == {{}, {E1} \cap hostRoots}

PageStart ==
  /\ pc = "loader"
  /\ dict = JEmptyObject
  /\ loadErr = FALSE
  /\ observing = FALSE
  /\ listeners = {}
  /\ timerOn = FALSE
  /\ pollCount = 0
  /\ ticks = 0
  /\ attached \in StartDoms
  /\ content = StartContent
  /\ muts = <<>>
  /\ translated = {}
  /\ req = NoReq
  /\ sync = NoSync
  /\ uncaught = FALSE

\* what the storage holds at the first load: nothing, a record an earlier
\* sync wrote, or a dictionary slot that no longer parses
StoredAtInstall(v) ==
  { <<Unset, Unset>>,
    <<Some(TxtA), Some(Fingerprint(v, TxtA))>>,
    <<Some(TxtBad), Unset>> }

\* the bundled snapshot and how the script manager reports a missing one
Snapshots == {<<Unset, FALSE>>, <<Unset, TRUE>>, <<Some(TxtCR), FALSE>>, <<Some(TxtBad), FALSE>>}

InitAmong(names, roots, bodies, snaps, etags, stored) ==
  /\ variant \in Variants
  /\ \E sn \in snaps : resInit = sn[1] /\ gmThrows = sn[2]
  /\ nameOf1 \in names
  /\ hostRoots \in roots
  /\ remoteBody \in bodies
  /\ serverEtag \in etags
  /\ \E st \in StoredAtInstall(variant) \cap stored : cacheDict = st[1] /\ cacheHash = st[2]
  /\ loads = 1
  /\ PageStart

\* every name of the top-level passage and both subtrees, over one snapshot,
\* one remote payload and an empty storage
Init ==
  InitAmong(Names, {Roots}, {TxtA}, {<<Some(TxtCR), FALSE>>}, {TRUE}, {<<Unset, Unset>>})

\* every storage content and snapshot, over a document of one passage
InitLoader ==
  InitAmong({NameP}, {{E1}}, {TxtA}, Snapshots, {TRUE},
            UNION {StoredAtInstall(v) : v \in Variants})

\* every remote payload and storage content, over a document of one passage
InitSync ==
  InitAmong({NameP}, {{E1}}, ServerTexts, {<<Some(TxtCR), FALSE>>}, BOOLEAN,
            UNION {StoredAtInstall(v) : v \in Variants})

\* the code units a changed payload carries in the changed position
EditChars == {0, 66, 65535}
\* the payloads that differ from t in exactly one position
OneCharEdits(t) == {[t EXCEPT ![i] = c] : i \in 1..Len(t), c \in EditChars} \ {t}

\* a hash variant whose cache holds a payload an earlier sync stored, over
\* every remote payload that differs from it in one position
InitHash ==
  /\ InitAmong({NameP}, {{E1}}, OneCharEdits(TxtA), {<<Some(TxtCR), FALSE>>}, {TRUE},
               {<<Some(TxtA), Some(simpleHash(TxtA))>>})
  /\ variant \in HashVariants

\* a first install, over one remote payload and a document of one passage
InitLive ==
  InitAmong({NameP}, {{E1}}, {TxtA}, {<<Some(TxtCR), FALSE>>}, {TRUE}, {<<Unset, Unset>>})

(***************************************************************************)
(* Startup script                                                          *)
(***************************************************************************)
\* the loader with a catch block that also clears the dictionary slot
LoadClearsMalformed ==
  /\ pc = "loader"
  /\ dict' = LoadDict
  /\ loadErr' = (LoadTry.kind = "throw")
  /\ cacheDict' = IF LoadTry.kind = "throw" THEN Unset ELSE cacheDict
  /\ pc' = "observe"
  /\ UNCHANGED <<env, cacheHash, loads, observing, listeners, poller, dom, req, sync, uncaught>>

\* the loader: let dict = {}; try { ... } catch { ... }
Load ==
  /\ pc = "loader"
  /\ dict' = LoadDict
  /\ loadErr' = (LoadTry.kind = "throw")
  /\ pc' = "observe"
  /\ UNCHANGED <<env, store, loads, observing, listeners, poller, dom, req, sync, uncaught>>

\* new MutationObserver(...).observe(document.documentElement, {childList, subtree})
InstallObserver ==
  /\ pc = "observe"
  /\ observing' = TRUE
  /\ pc' = "scan"
  /\ UNCHANGED <<env, store, loads, dict, loadErr, listeners, poller, dom, req, sync, uncaught>>

\* the effect of one full scan on the document
ScanEffect(r) ==
  /\ content' = r.content
  /\ muts' = IF observing THEN muts \o r.recs ELSE muts
  /\ translated' = translated \cup r.done
  /\ uncaught' = (uncaught \/ r.threw)
  /\ attached' = attached

\* translateAllExisting();   an exception ends the startup script here
InitialScan ==
  /\ pc = "scan"
  /\ LET r == translateAllExisting(content) IN
       /\ ScanEffect(r)
       /\ pc' = IF r.threw THEN "running" ELSE "listen"
  /\ UNCHANGED <<env, store, loads, dict, loadErr, observing, listeners, poller, req, sync>>

\* addEventListener('DOMContentLoaded' / 'load', ..., {once: true}); setInterval(..., 100)
InstallListeners ==
  /\ pc = "listen"
  /\ listeners' = {"DOMContentLoaded", "load"}
  /\ timerOn' = TRUE
  /\ pc' = "remote"
  /\ UNCHANGED <<env, store, loads, dict, loadErr, observing, pollCount, ticks, dom, req,
                 sync, uncaught>>

\* checkRemoteTranslations() / checkRemote(): issue the one request of the page
CheckRemote ==
  /\ pc = "remote"
  /\ pc' = "running"
  /\ IF variant = "v111"                        \* CACHE_ETAG_KEY is not defined
     THEN uncaught' = TRUE /\ req' = req
     ELSE /\ uncaught' = uncaught
          /\ req' = [NoReq EXCEPT !.state = "pending",
                       !.inm = IF variant = "v112" /\ Truthy(cacheHash) THEN cacheHash ELSE Unset]
  /\ UNCHANGED <<env, store, loads, dict, loadErr, observing, listeners, poller, dom, sync>>


(***************************************************************************)
(* The running page.  Script callbacks are tasks of their own: they start  *)
(* only when no mutation record is waiting, and the observer callback runs *)
(* as soon as records wait.  location.reload() ends the page.              *)
(***************************************************************************)
Running == pc = "running" /\ ~sync.reload
TaskStart == Running /\ muts = <<>>

HostTurn == Running /\ Len(muts) < MaxBatch /\ \A i \in 1..Len(muts) : muts[i].by = "host"

\* the host inserts a subtree: the passage E1, or the container E2 with E3 in it
HostInsert(r) ==
  /\ HostTurn
  /\ r \in hostRoots \ attached
  /\ attached' = attached \cup Subtree(r)
  /\ muts' = IF observing THEN Append(muts, Rec("host", <<r>>)) ELSE muts
  /\ UNCHANGED <<env, store, loads, pc, dict, loadErr, observing, listeners, poller,
                 content, translated, req, sync, uncaught>>

\* the host re-renders a passage: its text is set again
HostSetText(e) ==
  /\ HostTurn
  /\ e \in Passages \cap attached
  /\ content[e] # <<TxtLF>>
  /\ content' = [content EXCEPT ![e] = <<TxtLF>>]
  /\ translated' = translated \ {e}
  /\ muts' = IF observing THEN Append(muts, Rec("host", <<TextNode>>)) ELSE muts
  /\ UNCHANGED <<env, store, loads, pc, dict, loadErr, observing, listeners, poller,
                 attached, req, sync, uncaught>>

\* the host re-renders a passage: a text fragment is added after what is there
HostAppendText(e) ==
  /\ HostTurn
  /\ e \in Passages \cap attached
  /\ Len(content[e]) < MaxKids
  /\ content' = [content EXCEPT ![e] = Append(@, TxtHi)]
  /\ translated' = translated \ {e}
  /\ muts' = IF observing THEN Append(muts, Rec("host", <<TextNode>>)) ELSE muts
  /\ UNCHANGED <<env, store, loads, pc, dict, loadErr, observing, listeners, poller,
                 attached, req, sync, uncaught>>

\* a callback that answers every added node with a scan of the document
CallbackTargetsRescans(n) == querySelectorAll(attached)

\* the nodes the observer callback hands to translateOne for one added node
\*   1.0.x, 2.0:  n itself if it matches, else the matching descendants of n
\*   1.1.x:       n itself, whatever it is
CallbackTargets(n) ==
  IF variant \in ETagVariants THEN <<n>>
  ELSE IF ~IsElement(n) THEN <<>>
  ELSE IF matches(n) THEN <<n>>
  ELSE querySelectorAll(Subtree(n) \ {n})

RECURSIVE AddedTargets(_)
AddedTargets(added) ==
  IF added = <<>> THEN <<>> ELSE CallbackTargets(Head(added)) \o AddedTargets(Tail(added))

RECURSIVE RecordTargets(_)
RecordTargets(recs) ==
  IF recs = <<>> THEN <<>> ELSE AddedTargets(Head(recs).added) \o RecordTargets(Tail(recs))

\* the MutationObserver callback, on all the records that wait
ObserverCallback ==
  /\ Running
  /\ observing
  /\ muts # <<>>
  /\ LET r == forEachTranslate(RecordTargets(muts), Pass(content, <<>>, FALSE, {})) IN
       /\ content' = r.content
       /\ muts' = r.recs
       /\ translated' = translated \cup r.done
       /\ uncaught' = (uncaught \/ r.threw)
  /\ UNCHANGED <<env, store, loads, pc, dict, loadErr, observing, listeners, poller,
                 attached, req, sync>>

\* DOMContentLoaded and load, each heard once, in this order
FireEvent(ev) ==
  /\ TaskStart
  /\ ev \in listeners
  /\ ev = "load" => "DOMContentLoaded" \notin listeners
  /\ listeners' = listeners \ {ev}
  /\ ScanEffect(translateAllExisting(content))
  /\ UNCHANGED <<env, store, loads, pc, dict, loadErr, observing, poller, req, sync>>

\* if (++pollCount >= pollMax) clearInterval(pollTimer)   (1.0.x, 2.0)
\* if (++k > 10) clearInterval(id)                        (1.1.x)
PollDone(count) == IF variant \in ETagVariants THEN count > 10 ELSE count >= pollMax

\* the interval callback made to wait for the response of the remote check
PollTickAfterResponse ==
  /\ TaskStart
  /\ timerOn
  /\ req.state = "done"
  /\ ticks < MaxTicks
  /\ ticks' = ticks + 1
  /\ LET r == translateAllExisting(content) IN
       /\ ScanEffect(r)
       /\ pollCount' = IF r.threw THEN pollCount ELSE pollCount + 1
       /\ timerOn' = IF r.threw THEN timerOn ELSE ~PollDone(pollCount + 1)
  /\ UNCHANGED <<env, store, loads, pc, dict, loadErr, observing, listeners, req, sync>>

\* the interval callback: translateAllExisting(); then count and maybe stop
PollTick ==
  /\ TaskStart
  /\ timerOn
  /\ ticks < MaxTicks
  /\ ticks' = ticks + 1
  /\ LET r == translateAllExisting(content) IN
       /\ ScanEffect(r)
       /\ pollCount' = IF r.threw THEN pollCount ELSE pollCount + 1
       /\ timerOn' = IF r.threw THEN timerOn ELSE ~PollDone(pollCount + 1)
  /\ UNCHANGED <<env, store, loads, pc, dict, loadErr, observing, listeners, req, sync>>

(***************************************************************************)
(* Remote Sync                                                             *)
(***************************************************************************)
\* if (ASK_BEFORE_RELOAD) { if (hidden || confirm(...)) location.reload(); }
\* else location.reload();
\* confirm(...) is evaluated only when ask holds and the document is visible
reloadPolicy(ask, hidden, answer) ==
  LET prompted == ask /\ ~hidden IN
  [wrote |-> TRUE, prompted |-> prompted,
   reload |-> (~ask \/ hidden \/ answer), logged |-> "log"]

\* the reload policy with the visibility test left out: it always asks
ReloadPolicyAlwaysAsks(hidden, answer) ==
  [wrote |-> TRUE, prompted |-> ASK_BEFORE_RELOAD,
   reload |-> (~ASK_BEFORE_RELOAD \/ answer), logged |-> "log"]

ReloadPolicy(hidden, answer) == reloadPolicy(ASK_BEFORE_RELOAD, hidden, answer)

\* onloadHash with the JSON.parse validation left out
onloadHashUnvalidated(status, hidden, answer) ==
  IF status # 200 THEN [s |-> Warned, d |-> cacheDict, h |-> cacheHash]
  ELSE LET remoteHash == simpleHash(remoteBody) IN
       IF ~cacheHash.set \/ remoteHash # cacheHash.val
       THEN [s |-> ReloadPolicy(hidden, answer), d |-> Some(remoteBody), h |-> Some(remoteHash)]
       ELSE [s |-> NoSync, d |-> cacheDict, h |-> cacheHash]

\* onload of 1.0.0, 1.0.1 and 2.0 (hash comparison)
onloadHash(status, hidden, answer) ==
  IF status # 200 THEN [s |-> Warned, d |-> cacheDict, h |-> cacheHash]
  ELSE IF JSONparse(remoteBody).kind = "throw" THEN [s |-> Warned, d |-> cacheDict, h |-> cacheHash]
  ELSE LET remoteHash == simpleHash(remoteBody) IN
       IF ~cacheHash.set \/ remoteHash # cacheHash.val
       THEN [s |-> ReloadPolicy(hidden, answer), d |-> Some(remoteBody), h |-> Some(remoteHash)]
       ELSE [s |-> NoSync, d |-> cacheDict, h |-> cacheHash]

\* onloadETag with the 304 test left out of the status check
onloadETagAdopts304(status, hidden, answer) ==
  IF status \notin {200, 304} THEN [s |-> Warned, d |-> cacheDict, h |-> cacheHash]
  ELSE IF JSONparse(remoteBody).kind = "throw" THEN [s |-> Warned, d |-> cacheDict, h |-> cacheHash]
  ELSE [s |-> ReloadPolicy(hidden, answer), d |-> Some(remoteBody),
        h |-> IF Truthy(getHeader) THEN getHeader ELSE cacheHash]

\* onload of 1.1.2 (ETag)
onloadETag(status, hidden, answer) ==
  IF status = 304 THEN [s |-> NoSync, d |-> cacheDict, h |-> cacheHash]
  ELSE IF status # 200 THEN [s |-> Warned, d |-> cacheDict, h |-> cacheHash]
  ELSE IF JSONparse(remoteBody).kind = "throw" THEN [s |-> Warned, d |-> cacheDict, h |-> cacheHash]
  ELSE [s |-> ReloadPolicy(hidden, answer), d |-> Some(remoteBody),
        h |-> IF Truthy(getHeader) THEN getHeader ELSE cacheHash]

\* onload with the dictionary slot written before the body is parsed
onloadStoresFirst(status, hidden, answer) ==
  LET r == IF variant \in ETagVariants THEN onloadETag(status, hidden, answer)
           ELSE onloadHash(status, hidden, answer) IN
  IF status = 200 /\ JSONparse(remoteBody).kind = "throw"
  THEN [r EXCEPT !.d = Some(remoteBody)] ELSE r

onload(status, hidden, answer) ==
  IF variant \in ETagVariants THEN onloadETag(status, hidden, answer)
  ELSE onloadHash(status, hidden, answer)

Statuses == {200, 304, 404}

\* the response arrives and onload runs; req keeps what the handler saw:
\* document.visibilityState once the body parsed, and what confirm() returned
OnLoad(status, hidden, answer) ==
  /\ TaskStart
  /\ req.state = "pending"
  /\ status \in (IF NotModified THEN {304, 404} ELSE {200, 404})
  /\ LET r == onload(status, hidden, answer)
         parsed == status = 200 /\ JSONparse(remoteBody).kind # "throw" IN
       /\ sync' = r.s
       /\ cacheDict' = r.d
       /\ cacheHash' = r.h
       /\ req' = [req EXCEPT !.state = "done", !.kind = "load", !.status = status,
                             !.hidden = parsed /\ hidden,
                             !.answer = r.s.prompted /\ answer]
  /\ UNCHANGED <<env, loads, pc, dict, loadErr, observing, listeners, poller, dom, uncaught>>

\* the request fails: onerror warns in 1.0.x and 2.0; 1.1.2 registers no onerror
OnError ==
  /\ TaskStart
  /\ req.state = "pending"
  /\ req' = [req EXCEPT !.state = "done", !.kind = "error"]
  /\ sync' = IF variant \in HashVariants THEN Warned ELSE NoSync
  /\ UNCHANGED <<env, store, loads, pc, dict, loadErr, observing, listeners, poller, dom,
                 uncaught>>

\* the request times out after REMOTE_TIMEOUT_MS: no variant registers ontimeout
OnTimeout ==
  /\ TaskStart
  /\ req.state = "pending"
  /\ req' = [req EXCEPT !.state = "done", !.kind = "timeout"]
  /\ UNCHANGED <<env, store, loads, pc, dict, loadErr, observing, listeners, poller, dom,
                 sync, uncaught>>

\* the page is loaded again: by location.reload() or by the user
Reload ==
  /\ pc = "running"
  /\ loads < MaxLoads
  /\ loads' = loads + 1
  /\ pc' = "loader"
  /\ dict' = JEmptyObject
  /\ loadErr' = FALSE
  /\ observing' = FALSE
  /\ listeners' = {}
  /\ timerOn' = FALSE
  /\ pollCount' = 0
  /\ ticks' = 0
  /\ attached' \in StartDoms
  /\ content' = StartContent
  /\ muts' = <<>>
  /\ translated' = {}
  /\ req' = NoReq
  /\ sync' = NoSync
  /\ uncaught' = FALSE
  /\ UNCHANGED <<env, store>>

Next ==
  \/ Load
  \/ InstallObserver
  \/ InitialScan
  \/ InstallListeners
  \/ CheckRemote
  \/ \E r \in Roots : HostInsert(r)
  \/ \E e \in Passages : HostSetText(e)
  \/ \E e \in Passages : HostAppendText(e)
  \/ ObserverCallback
  \/ \E ev \in {"DOMContentLoaded", "load"} : FireEvent(ev)
  \/ PollTick
  \/ \E status \in Statuses, hidden \in BOOLEAN, answer \in BOOLEAN : OnLoad(status, hidden, answer)
  \/ OnError
  \/ OnTimeout
  \/ Reload

Spec == Init /\ [][Next]_vars
SpecLoader == InitLoader /\ [][Next]_vars
SpecSync == InitSync /\ [][Next]_vars
SpecHash == InitHash /\ [][Next]_vars

\* Scheduling: the startup script runs to its end; the observer callback is
\* a microtask and runs whenever records wait; the interval timer and the
\* two lifecycle events fire whatever else is going on.  Nothing makes the
\* response of the remote check arrive, the host act or the user reload.
Startup == Load \/ InstallObserver \/ InitialScan \/ InstallListeners \/ CheckRemote

Fairness ==
  /\ WF_vars(Startup \/ ObserverCallback)
  /\ SF_vars(PollTick)
  /\ SF_vars(\E ev \in {"DOMContentLoaded", "load"} : FireEvent(ev))

SpecLive == InitLive /\ [][Next]_vars /\ Fairness


(***************************************************************************)
(* Steps, as the properties below name them                                *)
(***************************************************************************)
\* a step of the host: it leaves one more record, made by the host
HostStep == Len(muts') = Len(muts) + 1 /\ muts'[Len(muts')].by = "host"
\* a full scan run by a lifecycle event or a poll tick
ScanStep == pc = "running" /\ loads' = loads /\ (ticks' # ticks \/ listeners' # listeners)
\* the observer callback
CallbackStep == Running /\ muts # <<>> /\ loads' = loads /\ ~HostStep
\* a response handler of the request ran (or none was registered for the outcome)
HandlerStep == req.state = "pending" /\ req'.state = "done"

\* the passage's name is a key of the dictionary
HasEntry(e) == dict.kind = "object" /\ getAttribute(e).val \in DOMAIN dict.map
Translation(e) == dict.map[getAttribute(e).val]
AttachedPassages == Passages \cap attached

(***************************************************************************)
(* C1  Idempotence of the Node Translator: when translateOne was the last  *)
(* thing to touch every passage of the document and the dictionary is      *)
(* unchanged, a further scan (translateOne on each of them again) performs *)
(* no DOM mutation: no child is removed or inserted, no content assigned.  *)
(***************************************************************************)
C1_SecondCallMutatesNothing ==
  [][(ScanStep /\ AttachedPassages # {} /\ AttachedPassages \subseteq translated /\ muts = <<>>)
       => (muts' = <<>> /\ content' = content)]_vars

(***************************************************************************)
(* C2  Untranslated content is preserved: no step of the script changes    *)
(* the content of a passage that has no non-empty name or whose name has   *)
(* no entry in the dictionary.                                             *)
(***************************************************************************)
C2_UntranslatedPreserved ==
  [][(loads' = loads /\ ~HostStep)
       => \A e \in Passages :
            (~Truthy(getAttribute(e)) \/ ~HasEntry(e)) => content'[e] = content[e]]_vars

(***************************************************************************)
(* C3  Fallback cascade: right after the loader ran with an empty cache    *)
(* slot, the dictionary is the snapshot's mapping when the snapshot is     *)
(* present and parses, and the empty mapping, with no error escaping, when *)
(* there is no snapshot.                                                   *)
(***************************************************************************)
C3_FallbackCascade ==
  (pc = "observe" /\ ~cacheDict.set)
    => /\ (resInit.set /\ JSONparse(resInit.val).kind # "throw")
            => dict = JSONparse(resInit.val)
       /\ ~resInit.set => (dict = JEmptyObject /\ ~uncaught)

(***************************************************************************)
(* C4  A cache slot that does not parse is treated as absent: right after  *)
(* the loader ran, the dictionary is the snapshot's mapping when the       *)
(* snapshot is present and parses, and empty otherwise; nothing escapes.   *)
(***************************************************************************)
C4_ParseFailureFallsThrough ==
  (pc = "observe" /\ Truthy(cacheDict) /\ JSONparse(cacheDict.val).kind = "throw")
    => /\ ~uncaught
       /\ dict = IF resInit.set /\ JSONparse(resInit.val).kind # "throw"
                 THEN JSONparse(resInit.val) ELSE JEmptyObject

(***************************************************************************)
(* C5  Insertion coverage: the observer callback that handles an insertion *)
(* leaves every inserted passage whose name is a dictionary key, be it the *)
(* inserted node or a descendant of it, holding its translation.           *)
(***************************************************************************)
InsertedNodes ==
  {n \in Nodes : \E i \in 1..Len(muts) : \E j \in 1..Len(muts[i].added) :
                   IsElement(muts[i].added[j]) /\ n \in Subtree(muts[i].added[j])}

C5_InsertionCoverage ==
  [][CallbackStep
       => \A e \in Passages \cap InsertedNodes :
            HasEntry(e) => normalize(textContent(content'[e])) = normalize(Translation(e))]_vars

(***************************************************************************)
(* C6  Bounded polling termination: the poller scans on each tick, clears  *)
(* its timer when the ticks reach pollMax, and no tick scans after that.   *)
(***************************************************************************)
C6_BoundedPolling == ticks <= pollMax /\ (ticks = pollMax => ~timerOn)

(***************************************************************************)
(* C7  Conditional-fetch short-circuit: in the ETag variant a 304 response *)
(* writes neither cache slot, leaves the in-memory dictionary alone and    *)
(* neither prompts for nor requests a reload.                              *)
(***************************************************************************)
C7_NotModifiedShortCircuit ==
  [][(HandlerStep /\ variant \in ETagVariants /\ req'.kind = "load" /\ req'.status = 304)
       => (cacheDict' = cacheDict /\ cacheHash' = cacheHash /\ dict' = dict
           /\ ~sync'.wrote /\ ~sync'.prompted /\ ~sync'.reload)]_vars

\* a 304 was handled by the ETag variant that issues requests
C7_Witness ==
  variant = "v112" /\ req.state = "done" /\ req.kind = "load" /\ req.status = 304
  /\ cacheDict = Some(TxtA) /\ ~sync.wrote

(***************************************************************************)
(* C8  Remote transport failure: on a timeout, a network error or a status *)
(* other than 200 (and 304 in the ETag variant) both cache slots and the   *)
(* dictionary are unchanged, the failure is logged and no reload is        *)
(* requested.                                                              *)
(***************************************************************************)
TransportFailure(r) ==
  \/ r.kind \in {"error", "timeout"}
  \/ r.kind = "load" /\ r.status # 200 /\ ~(variant \in ETagVariants /\ r.status = 304)

C8_TransportFailureAbsorbed ==
  [][(HandlerStep /\ TransportFailure(req'))
       => (cacheDict' = cacheDict /\ cacheHash' = cacheHash /\ dict' = dict
           /\ sync'.logged = "warn" /\ ~sync'.reload)]_vars

(***************************************************************************)
(* C9  Remote payload malformed: when the body of a 200 response does not  *)
(* parse, the handler logs a warning, leaves both cache slots and the      *)
(* dictionary unchanged and requests no reload.                            *)
(***************************************************************************)
C9_MalformedPayloadRejected ==
  [][(HandlerStep /\ req'.kind = "load" /\ req'.status = 200
        /\ JSONparse(remoteBody).kind = "throw")
       => (sync'.logged = "warn" /\ cacheDict' = cacheDict /\ cacheHash' = cacheHash
           /\ dict' = dict /\ ~sync'.wrote /\ ~sync'.prompted /\ ~sync'.reload)]_vars

\* a 200 response with a truncated body was handled, over a populated cache
C9_Witness ==
  req.state = "done" /\ req.kind = "load" /\ req.status = 200 /\ remoteBody = TxtBad
  /\ sync.logged = "warn" /\ cacheDict = Some(TxtA)

(***************************************************************************)
(* C10  Only a structured mapping is adopted: whenever Remote Sync wrote   *)
(* the dictionary slot, the slot parses to a mapping (an object).          *)
(***************************************************************************)
C10_OnlyMappingAdopted ==
  sync.wrote => (cacheDict.set /\ JSONparse(cacheDict.val).kind = "object")

(***************************************************************************)
(* C11  Reload policy after adopting new data: with the document hidden    *)
(* the handler reloads without a prompt; with the document visible and     *)
(* ASK_BEFORE_RELOAD set it prompts and reloads exactly when the user      *)
(* accepts; with ASK_BEFORE_RELOAD unset it reloads without a prompt.  No  *)
(* handler run prompts or reloads without having written the cache.        *)
(***************************************************************************)
C11_ReloadPolicy ==
  /\ \A hidden \in BOOLEAN, answer \in BOOLEAN :
       LET p == reloadPolicy(FALSE, hidden, answer) IN p.reload /\ ~p.prompted
  /\ [][HandlerStep
          => /\ (sync'.prompted \/ sync'.reload)
                  => (sync'.wrote /\ cacheDict' = Some(remoteBody))
             /\ sync'.wrote
                  => /\ req'.hidden => (sync'.reload /\ ~sync'.prompted)
                     /\ (~req'.hidden /\ ASK_BEFORE_RELOAD)
                          => (sync'.prompted /\ (sync'.reload <=> req'.answer))
                     /\ ~ASK_BEFORE_RELOAD => (sync'.reload /\ ~sync'.prompted)]_vars

\* new data was adopted with the document visible and the user declined
C11_Witness ==
  req.state = "done" /\ sync.wrote /\ ~req.hidden /\ sync.prompted /\ ~req.answer
  /\ ~sync.reload /\ cacheDict = Some(remoteBody)

(***************************************************************************)
(* C12  Remote Sync adopts only on change: a response handler writes the   *)
(* cache, prompts or requests a reload only when the fetched payload       *)
(* differs from the payload the dictionary slot holds; a fetch of the      *)
(* payload already cached writes nothing, prompts nothing, reloads nothing.*)
(***************************************************************************)
C12_AdoptsOnlyOnChange ==
  [][(HandlerStep /\ cacheDict = Some(remoteBody))
       => (cacheDict' = cacheDict /\ cacheHash' = cacheHash
           /\ ~sync'.wrote /\ ~sync'.prompted /\ ~sync'.reload)]_vars

(***************************************************************************)
(* C13  Eventual freshness for backgrounded sessions: when the document is *)
(* hidden and a 200 response carries a valid mapping that differs from the *)
(* cached payload, the handler persists the payload and reloads the page,  *)
(* and the loader of the next page load, which starts from this storage,   *)
(* yields the mapping of that payload.                                     *)
(***************************************************************************)
C13_BackgroundFreshness ==
  [][(HandlerStep /\ req'.kind = "load" /\ req'.status = 200 /\ req'.hidden
        /\ JSONparse(remoteBody).kind = "object" /\ cacheDict # Some(remoteBody))
       => (cacheDict' = Some(remoteBody) /\ sync'.reload
           /\ LoadDict' = JSONparse(remoteBody))]_vars

(***************************************************************************)
(* C14  Fingerprint soundness: when the payload the endpoint serves and    *)
(* the payload in the dictionary slot have equal simpleHash fingerprints,  *)
(* the two payloads are equal, so that the hash comparison never skips a   *)
(* changed payload.                                                        *)
(***************************************************************************)
C14_FingerprintSound ==
  (variant \in HashVariants /\ cacheDict.set
     /\ simpleHash(remoteBody) = simpleHash(cacheDict.val))
    => remoteBody = cacheDict.val

(***************************************************************************)
(* C15  Fingerprint stability: the fingerprint stored with a payload is    *)
(* the simpleHash of that payload, whenever it is computed; and when the   *)
(* remote payload has the length of the cached payload and differs from it *)
(* in exactly one position, their fingerprints differ.                     *)
(***************************************************************************)
DifferInOne(a, b) ==
  Len(a) = Len(b) /\ Cardinality({i \in 1..Len(a) : a[i] # b[i]}) = 1

C15_FingerprintStable ==
  (variant \in HashVariants /\ cacheDict.set)
    => /\ cacheHash.set => cacheHash.val = simpleHash(cacheDict.val)
       /\ DifferInOne(remoteBody, cacheDict.val)
            => simpleHash(remoteBody) # simpleHash(cacheDict.val)

\* the handler fingerprinted a one-position edit of the cached payload and
\* stored it under a fingerprint other than the previous one
C15_Witness ==
  /\ req.state = "done" /\ sync.wrote /\ DifferInOne(remoteBody, TxtA)
  /\ cacheDict = Some(remoteBody)
  /\ cacheHash = Some(simpleHash(remoteBody)) /\ cacheHash.val # simpleHash(TxtA)

(***************************************************************************)
(* C16  All failures are absorbed: no step of the script lets an exception *)
(* escape, and once the startup script has ended the watcher and the       *)
(* poller were installed and the remote check was issued.                  *)
(***************************************************************************)
C16_FailuresAbsorbed ==
  /\ ~uncaught
  /\ pc = "running"
       => (observing /\ (timerOn \/ ticks >= pollMax) /\ req.state # "none")

(***************************************************************************)
(* C17  The dictionary is read-only on the translation path: within a page *)
(* load only the loader assigns the in-memory dictionary, so no scan,      *)
(* observer callback, lifecycle event or poll tick changes it; and a cache *)
(* slot changes only in a response handler that received a 200 whose body  *)
(* parsed.                                                                 *)
(***************************************************************************)
C17_DictionaryReadOnly ==
  [][/\ dict' # dict => (pc = "loader" \/ loads' # loads)
     /\ (cacheDict' # cacheDict \/ cacheHash' # cacheHash)
          => (HandlerStep /\ req'.kind = "load" /\ req'.status = 200
              /\ JSONparse(remoteBody).kind # "throw" /\ sync'.wrote)]_vars

\* the handler stored a new payload and a poll tick translated after that,
\* with the dictionary still the one the loader read from the snapshot
C17_Witness ==
  /\ sync.wrote /\ ~sync.reload /\ ticks > 0 /\ E1 \in translated
  /\ cacheDict = Some(remoteBody) /\ remoteBody # resInit.val
  /\ dict = JSONparse(resInit.val)

(***************************************************************************)
(* C18  Remote Sync never blocks translation: a request exists only after  *)
(* the watcher was installed and the initial scan, the listeners and the   *)
(* timer were set up, so no response handler runs before the initial scan; *)
(* and whatever happens to the request (a response, an error, a timeout,   *)
(* or nothing at all) the lifecycle scans run and the poller runs its      *)
(* ticks to the end, unless the page is reloaded first.                    *)
(***************************************************************************)
PageEnds == sync.reload \/ pc = "loader"

C19_FullReplacement ==
  \A e \in AttachedPassages :
    (e \in translated /\ HasEntry(e))
      => normalize(textContent(content[e])) = normalize(Translation(e))

\* a poll tick translated the passage inside the inserted container
C19_Witness ==
  /\ ticks > 0 /\ E3 \in attached /\ E3 \in translated /\ HasEntry(E3)
  /\ normalize(textContent(content[E3])) = normalize(Translation(E3))
  /\ content[E3] # StartContent[E3]

(***************************************************************************)
(* C20  A persisted change is always applied to the running page: once the *)
(* response handler has written a new payload to the cache, either a       *)
(* reload was requested or the in-memory dictionary is the mapping of the  *)
(* stored payload; the page never goes on translating with the old         *)
(* dictionary.                                                             *)
(***************************************************************************)
C20_ChangeAlwaysApplied ==
  sync.wrote => (sync.reload \/ dict = JSONparse(cacheDict.val))

(***************************************************************************)
(* C21  Cache slot lifecycle: the loader step leaves both cache slots as   *)
(* they are, also when the cached value does not parse; no step turns a    *)
(* populated slot into an absent or empty one; and a populated dictionary  *)
(* slot changes only in a response handler that adopted a 200 response.    *)
(***************************************************************************)
C21_CacheSlotLifecycle ==
  [][/\ pc = "loader" => (cacheDict' = cacheDict /\ cacheHash' = cacheHash)
     /\ Truthy(cacheDict) => Truthy(cacheDict')
     /\ Truthy(cacheHash) => Truthy(cacheHash')
     /\ (Truthy(cacheDict) /\ cacheDict' # cacheDict)
          => (HandlerStep /\ req'.kind = "load" /\ req'.status = 200 /\ sync'.wrote
              /\ cacheDict' = Some(remoteBody))]_vars

\* a second page load ran its loader and its sync over a slot that does not
\* parse, and the slot is still there
C21_Witness ==
  /\ loads = 2 /\ pc = "running" /\ loadErr /\ req.state = "done"
  /\ cacheDict = Some(TxtBad) /\ ticks > 0

(***************************************************************************)
(* C22  No reload loop: on a page load that follows a reload, when the     *)
(* cache holds the record a sync against this endpoint leaves (the payload *)
(* the endpoint serves, with its hash, or with its validator if it sends   *)
(* one), the response handler writes nothing, prompts nothing and requests *)
(* no reload.                                                              *)
(***************************************************************************)
\* the cache is as an adoption of the served payload from this endpoint left it
AdoptedFromEndpoint ==
  /\ cacheDict = Some(remoteBody)
  /\ JSONparse(remoteBody).kind # "throw"
  /\ cacheHash = IF variant \in HashVariants THEN Some(simpleHash(remoteBody)) ELSE getHeader

C22_NoReloadLoop ==
  [][(HandlerStep /\ loads > 1 /\ AdoptedFromEndpoint)
       => (cacheDict' = cacheDict /\ cacheHash' = cacheHash
           /\ ~sync'.wrote /\ ~sync'.prompted /\ ~sync'.reload)]_vars

(***************************************************************************)
(* C23  Cache record consistency: once Remote Sync has written the         *)
(* dictionary slot, the other slot holds the fingerprint of exactly the    *)
(* stored payload: its simpleHash in the hash variants, the validator that *)
(* was delivered with it in the ETag variants.                             *)
(***************************************************************************)
C23_CacheRecordConsistent ==
  sync.wrote
    => /\ cacheDict = Some(remoteBody)
       /\ variant \in HashVariants => cacheHash = Some(simpleHash(cacheDict.val))
       /\ variant \in ETagVariants => cacheHash = getHeader

(***************************************************************************)
(* C24  No watcher feedback loop.                                          *)
(*                                                                         *)
(* As first stated: the observer callback never calls translateOne for a   *)
(* mutation record that translateOne itself produced.                      *)
(***************************************************************************)
ScriptMade(r) == r.by = "script"

C24_NoCallForOwnMutations ==
  [][CallbackStep => RecordTargets(SelectSeq(muts, ScriptMade)) = <<>>]_vars

(***************************************************************************)
(* C24, amended: an observer callback that handles the mutation records    *)
(* translateOne produced changes nothing in the document, raises nothing   *)
(* and leaves no new record (where it calls translateOne at all, on the    *)
(* appended text node, the call returns at once); hence waiting records    *)
(* are always worked off and the page is quiescent again and again.        *)
(***************************************************************************)
C24_NoFeedbackLoop ==
  /\ [][(CallbackStep /\ \A i \in 1..Len(muts) : ScriptMade(muts[i]))
          => (muts' = <<>> /\ content' = content /\ uncaught' = uncaught)]_vars
  /\ []<>(muts = <<>>)

\* in a 1.1.x variant a poll tick replaced the passage's content and the
\* callback has worked off the records of that replacement
C24_Witness ==
  /\ variant \in ETagVariants /\ observing /\ ticks > 0 /\ muts = <<>>
  /\ E1 \in attached /\ E1 \in translated /\ HasEntry(E1)
  /\ content[E1] = <<normalize(Translation(E1))>>

====
